---------------------------- MODULE Spec2Model ----------------------------
(***************************************************************************)
(* Remote-command execution core of combined1.py: the Docker command       *)
(* catalog, the free-form command normaliser autocorrect_cmd, and the two  *)
(* SSH session slots (Linux Executor, Docker Menu) with their Connect /    *)
(* Disconnect / Execute handlers.                                          *)
(*                                                                         *)
(* A Python str is modelled as a sequence of one-character strings, so     *)
(* that tokenising, joining and similarity are computed character by       *)
(* character.                                                              *)
(***************************************************************************)
EXTENDS Integers, Sequences, FiniteSets, TLC

(***************************************************************************)
(* Strings                                                                 *)
(***************************************************************************)
Empty == << >>

\* A local variable of the code is written  CHOOSE out \in {e : x \in {v}} : TRUE,
\* the value of e with x naming the value of v, computed once.

docker == <<"d","o","c","k","e","r">>

SUBCOMMANDS == {
    <<"a","t","t","a","c","h">>, <<"b","u","i","l","d">>, <<"b","u","i","l","d","e","r">>,
    <<"c","h","e","c","k","p","o","i","n","t">>, <<"c","o","m","m","i","t">>,
    <<"c","o","m","p","o","s","e">>, <<"c","o","n","f","i","g">>,
    <<"c","o","n","t","a","i","n","e","r">>, <<"c","o","n","t","e","x","t">>, <<"c","p">>,
    <<"c","r","e","a","t","e">>, <<"d","i","f","f">>, <<"e","v","e","n","t","s">>,
    <<"e","x","e","c">>, <<"e","x","p","o","r","t">>, <<"h","i","s","t","o","r","y">>,
    <<"i","m","a","g","e">>, <<"i","m","a","g","e","s">>, <<"i","m","p","o","r","t">>,
    <<"i","n","f","o">>, <<"i","n","s","p","e","c","t">>, <<"k","i","l","l">>,
    <<"l","o","a","d">>, <<"l","o","g","i","n">>, <<"l","o","g","o","u","t">>,
    <<"l","o","g","s">>, <<"n","e","t","w","o","r","k">>, <<"p","a","u","s","e">>,
    <<"p","o","r","t">>, <<"p","s">>, <<"p","u","l","l">>, <<"p","u","s","h">>,
    <<"r","e","n","a","m","e">>, <<"r","e","s","t","a","r","t">>, <<"r","m">>, <<"r","m","i">>,
    <<"r","u","n">>, <<"s","a","v","e">>, <<"s","c","a","n">>, <<"s","e","a","r","c","h">>,
    <<"s","e","c","r","e","t">>, <<"s","e","r","v","i","c","e">>, <<"s","t","a","c","k">>,
    <<"s","t","a","r","t">>, <<"s","t","a","t","s">>, <<"s","t","o","p">>,
    <<"s","w","a","r","m">>, <<"s","y","s","t","e","m">>, <<"t","a","g">>, <<"t","o","p">>,
    <<"t","r","u","s","t">>, <<"u","n","p","a","u","s","e">>, <<"u","p","d","a","t","e">>,
    <<"v","e","r","s","i","o","n">>, <<"v","o","l","u","m","e">>, <<"w","a","i","t">> }

\* shlex character classes (posix mode, as shlex.split sets them up)
Whitespace == {" ", "\t", "\r", "\n"}
Quotes == {"'", "\""}
Escape == "\\"
EscapedQuotes == {"\""}

\* code-point order of the characters that occur in SUBCOMMANDS
Alphabet == <<"a","b","c","d","e","f","g","h","i","j","k","l","m",
              "n","o","p","q","r","s","t","u","v","w","x","y","z">>

Ord(c) == CHOOSE i \in 1..Len(Alphabet) : Alphabet[i] = c

RECURSIVE StrLess(_, _)
\* Python's a < b on str: lexicographic, a proper prefix is smaller
StrLess(a, b) ==
    IF b = Empty THEN FALSE
    ELSE IF a = Empty THEN TRUE
    ELSE IF Head(a) = Head(b) THEN StrLess(Tail(a), Tail(b))
    ELSE Ord(Head(a)) < Ord(Head(b))

RECURSIVE LStrip(_)
LStrip(s) == IF s # Empty /\ Head(s) \in Whitespace THEN LStrip(Tail(s)) ELSE s

RECURSIVE RStrip(_)
RStrip(s) ==
    IF s # Empty /\ s[Len(s)] \in Whitespace THEN RStrip(SubSeq(s, 1, Len(s) - 1)) ELSE s

\* str.strip()
Strip(s) == RStrip(LStrip(s))

RECURSIVE Join(_)
\* " ".join(tokens)
Join(toks) ==
    IF toks = << >> THEN Empty
    ELSE IF Len(toks) = 1 THEN toks[1]
    ELSE toks[1] \o <<" ">> \o Join(Tail(toks))

(***************************************************************************)
(* shlex.split(cmd): the posix tokenizer with whitespace_split and no      *)
(* commenters.  st is the lexer state: "ws" (' '), "word" ('a'), a quote   *)
(* character, or "esc" (the escape character) with esc the state to        *)
(* return to.  The result is [ok, tokens]; ok = FALSE is ValueError.       *)
(***************************************************************************)
RECURSIVE Lex(_, _, _, _, _, _, _)
Lex(s, i, st, esc, tok, quoted, toks) ==
    IF i > Len(s) THEN
        \* end of input
        IF st \in Quotes \/ st = "esc" THEN [ok |-> FALSE, tokens |-> << >>]
        ELSE IF st = "word" /\ (tok # Empty \/ quoted)
             THEN [ok |-> TRUE, tokens |-> Append(toks, tok)]
             ELSE [ok |-> TRUE, tokens |-> toks]
    ELSE
        LET c == s[i] IN
        IF st = "ws" THEN
            IF c \in Whitespace THEN Lex(s, i + 1, "ws", esc, tok, quoted, toks)
            ELSE IF c = Escape THEN Lex(s, i + 1, "esc", "word", tok, quoted, toks)
            ELSE IF c \in Quotes THEN Lex(s, i + 1, c, esc, tok, quoted, toks)
            ELSE Lex(s, i + 1, "word", esc, <<c>>, quoted, toks)
        ELSE IF st \in Quotes THEN
            IF c = st THEN Lex(s, i + 1, "word", esc, tok, TRUE, toks)
            ELSE IF c = Escape /\ st \in EscapedQuotes
                 THEN Lex(s, i + 1, "esc", st, tok, TRUE, toks)
            ELSE Lex(s, i + 1, st, esc, Append(tok, c), TRUE, toks)
        ELSE IF st = "esc" THEN
            IF esc \in Quotes /\ c # Escape /\ c # esc
            THEN Lex(s, i + 1, esc, esc, tok \o <<Escape, c>>, quoted, toks)
            ELSE Lex(s, i + 1, esc, esc, Append(tok, c), quoted, toks)
        ELSE \* st = "word"
            IF c \in Whitespace THEN
                IF tok # Empty \/ quoted
                THEN Lex(s, i + 1, "ws", "ws", Empty, FALSE, Append(toks, tok))
                ELSE Lex(s, i + 1, "ws", esc, tok, quoted, toks)
            ELSE IF c \in Quotes THEN Lex(s, i + 1, c, esc, tok, quoted, toks)
            ELSE IF c = Escape THEN Lex(s, i + 1, "esc", "word", tok, quoted, toks)
            ELSE Lex(s, i + 1, "word", esc, Append(tok, c), quoted, toks)

shlex_split(s) == Lex(s, 1, "ws", "ws", Empty, FALSE, << >>)

(***************************************************************************)
(* difflib.SequenceMatcher(None, a, b): ratio, quick_ratio,                *)
(* real_quick_ratio, and get_close_matches(word, possibilities, n=1).      *)
(* Ratios are kept as pairs (matches, length); 2.0*m/l is compared with    *)
(* 0.6 as 10*m against 3*l (l = 0 is ratio 1.0).  The sequences are far    *)
(* shorter than 200, so the autojunk heuristic never applies.              *)
(***************************************************************************)
RECURSIVE RunLen(_, _, _, _, _, _)
\* length of the common run of a[i..ahi] and b[j..bhi]
RunLen(a, b, i, j, ahi, bhi) ==
    IF i > ahi \/ j > bhi \/ a[i] # b[j] THEN 0
    ELSE 1 + RunLen(a, b, i + 1, j + 1, ahi, bhi)

\* find_longest_match on a[alo..ahi], b[blo..bhi] (1-based, inclusive):
\* the longest block, earliest in a, then earliest in b; <<alo, blo, 0>> if none
find_longest_match(a, b, alo, ahi, blo, bhi) ==
    CHOOSE out \in
        {IF \A r \in runs : r[3] = 0 THEN <<alo, blo, 0>>
         ELSE CHOOSE m \in runs :
                 \A r \in runs :
                    \/ r[3] < m[3]
                    \/ /\ r[3] = m[3]
                       /\ \/ m[1] < r[1]
                          \/ m[1] = r[1] /\ m[2] <= r[2] :
         runs \in {{<<i, j, RunLen(a, b, i, j, ahi, bhi)>> :
                       i \in alo..ahi, j \in blo..bhi}}} : TRUE

RECURSIVE Matches(_, _, _, _, _, _)
\* sum of the sizes of get_matching_blocks() on a[alo..ahi], b[blo..bhi]
Matches(a, b, alo, ahi, blo, bhi) ==
    CHOOSE out \in
        {IF m[3] = 0 THEN 0
         ELSE m[3]
              + (IF alo < m[1] /\ blo < m[2]
                 THEN Matches(a, b, alo, m[1] - 1, blo, m[2] - 1) ELSE 0)
              + (IF m[1] + m[3] <= ahi /\ m[2] + m[3] <= bhi
                 THEN Matches(a, b, m[1] + m[3], ahi, m[2] + m[3], bhi) ELSE 0) :
         m \in {find_longest_match(a, b, alo, ahi, blo, bhi)}} : TRUE

\* SequenceMatcher(None, a, b).ratio() as <<matches, len(a) + len(b)>>
ratio(a, b) == <<Matches(a, b, 1, Len(a), 1, Len(b)), Len(a) + Len(b)>>

Count(s, c) == Cardinality({i \in 1..Len(s) : s[i] = c})

Min(x, y) == IF x <= y THEN x ELSE y

\* quick_ratio(): size of the multiset intersection, counted as the pairs
\* (character, n) with n up to the smaller of its two counts
quick_ratio(a, b) ==
    <<Cardinality({p \in {a[i] : i \in 1..Len(a)} \X (1..Len(a)) :
                      p[2] <= Min(Count(a, p[1]), Count(b, p[1]))}),
      Len(a) + Len(b)>>

\* real_quick_ratio()
real_quick_ratio(a, b) == <<Min(Len(a), Len(b)), Len(a) + Len(b)>>

\* r > 0.6 and r >= 0.6 for r = 2.0 * r[1] / r[2]  (1.0 when r[2] = 0)
Above06(r) == IF r[2] = 0 THEN TRUE ELSE 10 * r[1] > 3 * r[2]
AtLeast06(r) == IF r[2] = 0 THEN TRUE ELSE 10 * r[1] >= 3 * r[2]

\* score order of two ratios with non-zero length
RatioLess(r, q) == r[1] * q[2] < q[1] * r[2]
RatioEq(r, q) == r[1] * q[2] = q[1] * r[2]

\* get_close_matches(word, possibilities, n=1): seq1 is the candidate, seq2 the
\* word; the result is max((score, x)) over the candidates that pass the three
\* cutoff tests, << >> when none does
get_close_matches(word, possibilities) ==
    CHOOSE out \in
        {IF result = {} THEN << >>
         ELSE << (CHOOSE p \in result :
                     \A q \in result \ {p} :
                        \/ RatioLess(q[1], p[1])
                        \/ RatioEq(q[1], p[1]) /\ StrLess(q[2], p[2]))[2] >> :
         result \in {{<<ratio(x, word), x>> :
                         x \in {y \in possibilities :
                                    /\ AtLeast06(real_quick_ratio(y, word))
                                    /\ AtLeast06(quick_ratio(y, word))
                                    /\ AtLeast06(ratio(y, word))}}}} : TRUE

(***************************************************************************)
(* autocorrect_cmd(cmd) -> (corrected_cmd, fix_note).  The note is kept as *)
(* the sequence of the sentences appended to it (each with the old and new *)
(* token it quotes); the empty sequence is the empty string ''.            *)
(***************************************************************************)
NoteVerbatim == <<"Could not parse command; running verbatim.">>
NoteEmpty == <<"Empty command; nothing to run.">>
NoteTop(old) == <<"Auto-corrected", old, docker>>
NoteInserted == <<"Inserted missing 'docker' prefix.">>
NoteSub(old, new) == <<"Auto-corrected sub-command", old, new>>

\* FixTop without its "elif tokens[0] in SUBCOMMANDS" branch
FixTopNoInsert(tokens) ==
    IF tokens[1] # docker /\ Above06(ratio(tokens[1], docker))
    THEN [tokens |-> [tokens EXCEPT ![1] = docker], note |-> <<NoteTop(tokens[1])>>]
    ELSE [tokens |-> tokens, note |-> << >>]

\* lines 162-169: prefix 'docker' if typo or missing
FixTop(tokens) ==
    IF tokens[1] # docker THEN
        IF Above06(ratio(tokens[1], docker))
        THEN [tokens |-> [tokens EXCEPT ![1] = docker], note |-> <<NoteTop(tokens[1])>>]
        ELSE IF tokens[1] \in SUBCOMMANDS
        THEN [tokens |-> <<docker>> \o tokens, note |-> <<NoteInserted>>]
        ELSE [tokens |-> tokens, note |-> << >>]
    ELSE [tokens |-> tokens, note |-> << >>]

\* FixSub without its "if sub not in SUBCOMMANDS" test: every sub-command is
\* looked up among the close matches
FixSubUnchecked(tokens) ==
    IF Len(tokens) >= 2 /\ tokens[1] = docker THEN
        CHOOSE out \in
            {IF close # << >> /\ Above06(ratio(tokens[2], close[1]))
             THEN [tokens |-> [tokens EXCEPT ![2] = close[1]],
                   note |-> <<NoteSub(tokens[2], close[1])>>]
             ELSE [tokens |-> tokens, note |-> << >>] :
             close \in {get_close_matches(tokens[2], SUBCOMMANDS)}} : TRUE
    ELSE [tokens |-> tokens, note |-> << >>]

\* lines 171-178: fix sub-command typos
FixSub(tokens) ==
    IF Len(tokens) >= 2 /\ tokens[1] = docker THEN
        IF tokens[2] \notin SUBCOMMANDS THEN
            CHOOSE out \in
                {IF close # << >> /\ Above06(ratio(tokens[2], close[1]))
                 THEN [tokens |-> [tokens EXCEPT ![2] = close[1]],
                       note |-> <<NoteSub(tokens[2], close[1])>>]
                 ELSE [tokens |-> tokens, note |-> << >>] :
                 close \in {get_close_matches(tokens[2], SUBCOMMANDS)}} : TRUE
        ELSE [tokens |-> tokens, note |-> << >>]
    ELSE [tokens |-> tokens, note |-> << >>]

\* OnParseError returning the tokens it has (none) joined, not the input
OnParseErrorDropsInput(cmd) == [cmd |-> Join(<< >>), note |-> <<NoteVerbatim>>]

\* "except ValueError: return cmd, 'Could not parse command; running verbatim.'"
OnParseError(cmd) == [cmd |-> cmd, note |-> <<NoteVerbatim>>]

\* Corrected with the note of the sub-command fix put before that of the first
\* token
CorrectedSubNoteFirst(tokens) ==
    CHOOSE out \in
        {[cmd |-> Join(FixSub(top.tokens).tokens),
          note |-> FixSub(top.tokens).note \o top.note] :
         top \in {FixTop(tokens)}} : TRUE

\* lines 160-180 on the tokens: both fixes, then " ".join(tokens)
Corrected(tokens) ==
    CHOOSE out \in
        {[cmd |-> Join(FixSub(top.tokens).tokens),
          note |-> top.note \o FixSub(top.tokens).note] :
         top \in {FixTop(tokens)}} : TRUE

autocorrect_cmd(cmd) ==
    CHOOSE out \in
        {IF ~lexed.ok THEN OnParseError(cmd)
         ELSE IF lexed.tokens = << >> THEN [cmd |-> cmd, note |-> <<NoteEmpty>>]
         ELSE Corrected(lexed.tokens) :
         lexed \in {shlex_split(cmd)}} : TRUE

(***************************************************************************)
(* Docker command catalog: label -> (shell template, needs_arg).  The two  *)
(* labels written with an arrow in the source are spelled with "->" here.  *)
(***************************************************************************)
T(tmpl, needs_arg) == [tmpl |-> tmpl, needs_arg |-> needs_arg]

COMMANDS ==
       ("Docker Version" :> T(<<"d","o","c","k","e","r"," ","-","-","v","e","r","s","i","o","n">>, FALSE))
    @@ ("Docker Info" :> T(<<"d","o","c","k","e","r"," ","i","n","f","o">>, FALSE))
    @@ ("List Images" :> T(<<"d","o","c","k","e","r"," ","i","m","a","g","e","s">>, FALSE))
    @@ ("List Containers (all)" :> T(<<"d","o","c","k","e","r"," ","p","s"," ","-","a">>, FALSE))
    @@ ("Run hello-world" :> T(<<"d","o","c","k","e","r"," ","r","u","n"," ","-","-","r","m"," ","h","e","l","l","o","-","w","o","r","l","d">>, FALSE))
    @@ ("Pull Image (name)" :> T(<<"d","o","c","k","e","r"," ","p","u","l","l"," ","{","a","r","g","}">>, TRUE))
    @@ ("Remove Image (name/id)" :> T(<<"d","o","c","k","e","r"," ","r","m","i"," ","{","a","r","g","}">>, TRUE))
    @@ ("Create Container (name) from alpine" :> T(<<"d","o","c","k","e","r"," ","c","r","e","a","t","e"," ","-","-","n","a","m","e"," ","{","a","r","g","}"," ","a","l","p","i","n","e">>, TRUE))
    @@ ("Start Container" :> T(<<"d","o","c","k","e","r"," ","s","t","a","r","t"," ","{","a","r","g","}">>, TRUE))
    @@ ("Stop Container" :> T(<<"d","o","c","k","e","r"," ","s","t","o","p"," ","{","a","r","g","}">>, TRUE))
    @@ ("Remove Container" :> T(<<"d","o","c","k","e","r"," ","r","m"," ","{","a","r","g","}">>, TRUE))
    @@ ("Container Logs" :> T(<<"d","o","c","k","e","r"," ","l","o","g","s"," ","{","a","r","g","}">>, TRUE))
    @@ ("Exec Shell (/bin/sh)" :> T(<<"d","o","c","k","e","r"," ","e","x","e","c"," ","-","i","t"," ","{","a","r","g","}"," ","/","b","i","n","/","s","h">>, TRUE))
    @@ ("Live Stats" :> T(<<"d","o","c","k","e","r"," ","s","t","a","t","s"," ","-","-","n","o","-","s","t","r","e","a","m">>, FALSE))
    @@ ("System Prune (all)" :> T(<<"d","o","c","k","e","r"," ","s","y","s","t","e","m"," ","p","r","u","n","e"," ","-","f">>, FALSE))
    @@ ("Prune Dangling Images" :> T(<<"d","o","c","k","e","r"," ","i","m","a","g","e"," ","p","r","u","n","e"," ","-","f">>, FALSE))
    @@ ("Prune Volumes" :> T(<<"d","o","c","k","e","r"," ","v","o","l","u","m","e"," ","p","r","u","n","e"," ","-","f">>, FALSE))
    @@ ("List Networks" :> T(<<"d","o","c","k","e","r"," ","n","e","t","w","o","r","k"," ","l","s">>, FALSE))
    @@ ("Create Network" :> T(<<"d","o","c","k","e","r"," ","n","e","t","w","o","r","k"," ","c","r","e","a","t","e"," ","{","a","r","g","}">>, TRUE))
    @@ ("Remove Network" :> T(<<"d","o","c","k","e","r"," ","n","e","t","w","o","r","k"," ","r","m"," ","{","a","r","g","}">>, TRUE))
    @@ ("List Volumes" :> T(<<"d","o","c","k","e","r"," ","v","o","l","u","m","e"," ","l","s">>, FALSE))
    @@ ("Create Volume" :> T(<<"d","o","c","k","e","r"," ","v","o","l","u","m","e"," ","c","r","e","a","t","e"," ","{","a","r","g","}">>, TRUE))
    @@ ("Remove Volume" :> T(<<"d","o","c","k","e","r"," ","v","o","l","u","m","e"," ","r","m"," ","{","a","r","g","}">>, TRUE))
    @@ ("Tag Image" :> T(<<"d","o","c","k","e","r"," ","t","a","g"," ","{","a","r","g","}">>, TRUE))
    @@ ("Push Image" :> T(<<"d","o","c","k","e","r"," ","p","u","s","h"," ","{","a","r","g","}">>, TRUE))
    @@ ("Inspect Container" :> T(<<"d","o","c","k","e","r"," ","i","n","s","p","e","c","t"," ","{","a","r","g","}">>, TRUE))
    @@ ("Inspect Image" :> T(<<"d","o","c","k","e","r"," ","i","n","s","p","e","c","t"," ","{","a","r","g","}">>, TRUE))
    @@ ("Copy out (ctr:path dest)" :> T(<<"d","o","c","k","e","r"," ","c","p"," ","{","a","r","g","}">>, TRUE))
    @@ ("Disk Usage" :> T(<<"d","o","c","k","e","r"," ","s","y","s","t","e","m"," ","d","f">>, FALSE))
    @@ ("Image History" :> T(<<"d","o","c","k","e","r"," ","h","i","s","t","o","r","y"," ","{","a","r","g","}">>, TRUE))
    @@ ("Login to Registry" :> T(<<"d","o","c","k","e","r"," ","l","o","g","i","n">>, FALSE))
    @@ ("Logout from Registry" :> T(<<"d","o","c","k","e","r"," ","l","o","g","o","u","t">>, FALSE))
    @@ ("List Contexts" :> T(<<"d","o","c","k","e","r"," ","c","o","n","t","e","x","t"," ","l","s">>, FALSE))
    @@ ("Switch Context" :> T(<<"d","o","c","k","e","r"," ","c","o","n","t","e","x","t"," ","u","s","e"," ","{","a","r","g","}">>, TRUE))
    @@ ("Compose Version" :> T(<<"d","o","c","k","e","r"," ","c","o","m","p","o","s","e"," ","v","e","r","s","i","o","n">>, FALSE))
    @@ ("Compose Up (detached)" :> T(<<"d","o","c","k","e","r"," ","c","o","m","p","o","s","e"," ","u","p"," ","-","d">>, FALSE))
    @@ ("Compose Down" :> T(<<"d","o","c","k","e","r"," ","c","o","m","p","o","s","e"," ","d","o","w","n">>, FALSE))
    @@ ("Compose Logs" :> T(<<"d","o","c","k","e","r"," ","c","o","m","p","o","s","e"," ","l","o","g","s"," ","-","-","t","a","i","l"," ","5","0">>, FALSE))
    @@ ("List Builder Cache" :> T(<<"d","o","c","k","e","r"," ","b","u","i","l","d","e","r"," ","l","s">>, FALSE))
    @@ ("Prune Builder Cache" :> T(<<"d","o","c","k","e","r"," ","b","u","i","l","d","e","r"," ","p","r","u","n","e"," ","-","f">>, FALSE))
    @@ ("Builder Build (Dockerfile)" :> T(<<"d","o","c","k","e","r"," ","b","u","i","l","d"," ","-","t"," ","{","a","r","g","}">>, TRUE))
    @@ ("Save Image -> tar" :> T(<<"d","o","c","k","e","r"," ","s","a","v","e"," ","{","a","r","g","}">>, TRUE))
    @@ ("Load Image from tar" :> T(<<"d","o","c","k","e","r"," ","l","o","a","d"," ","-","i"," ","{","a","r","g","}">>, TRUE))
    @@ ("Top (processes in ctr)" :> T(<<"d","o","c","k","e","r"," ","t","o","p"," ","{","a","r","g","}">>, TRUE))
    @@ ("Checkpoint create" :> T(<<"d","o","c","k","e","r"," ","c","h","e","c","k","p","o","i","n","t"," ","c","r","e","a","t","e"," ","{","a","r","g","}">>, TRUE))
    @@ ("Checkpoint list" :> T(<<"d","o","c","k","e","r"," ","c","h","e","c","k","p","o","i","n","t"," ","l","s"," ","{","a","r","g","}">>, TRUE))
    @@ ("Checkpoint rm" :> T(<<"d","o","c","k","e","r"," ","c","h","e","c","k","p","o","i","n","t"," ","r","m"," ","{","a","r","g","}">>, TRUE))
    @@ ("Image Digests" :> T(<<"d","o","c","k","e","r"," ","i","m","a","g","e"," ","l","s"," ","-","-","d","i","g","e","s","t","s">>, FALSE))
    @@ ("Events (10s)" :> T(<<"t","i","m","e","o","u","t"," ","1","0"," ","d","o","c","k","e","r"," ","e","v","e","n","t","s">>, FALSE))
    @@ ("Rename Container" :> T(<<"d","o","c","k","e","r"," ","r","e","n","a","m","e"," ","{","a","r","g","}">>, TRUE))
    @@ ("Commit Container -> Image" :> T(<<"d","o","c","k","e","r"," ","c","o","m","m","i","t"," ","{","a","r","g","}">>, TRUE))
    @@ ("Update Container Resources" :> T(<<"d","o","c","k","e","r"," ","u","p","d","a","t","e"," ","{","a","r","g","}">>, TRUE))
    @@ ("Exit" :> T(<<"e","x","i","t">>, FALSE))

\* str.format(arg=arg) on a catalog template: every "{arg}" field is replaced
\* by the argument, copied as it is
Placeholder == <<"{","a","r","g","}">>

RECURSIVE Format(_, _)
Format(tmpl, arg) ==
    IF tmpl = Empty THEN Empty
    ELSE IF Len(tmpl) >= Len(Placeholder) /\ SubSeq(tmpl, 1, Len(Placeholder)) = Placeholder
    THEN arg \o Format(SubSeq(tmpl, Len(Placeholder) + 1, Len(tmpl)), arg)
    ELSE <<Head(tmpl)>> \o Format(Tail(tmpl), arg)

Custom == "Custom command"

\* a needs_arg template: tmpl.format(arg=arg) if arg else ""
ResolveTemplate(tmpl, arg) == IF arg # Empty THEN Format(tmpl, arg) ELSE Empty

\* the free-form box: autocorrect_cmd(raw.strip()) when raw.strip() is non-empty,
\* else the initial ("", "")
PickCustom(raw) ==
    CHOOSE out \in
        {IF stripped # Empty THEN autocorrect_cmd(stripped)
         ELSE [cmd |-> Empty, note |-> << >>] :
         stripped \in {Strip(raw)}} : TRUE

\* the command picker: (cmd_to_run, fix_note) for the widget values
PickCommand(choice, raw, arg) ==
    IF choice = Custom THEN PickCustom(raw)
    ELSE LET t == COMMANDS[choice] IN
         IF t.needs_arg
         THEN [cmd |-> ResolveTemplate(t.tmpl, arg), note |-> << >>]
         ELSE [cmd |-> t.tmpl, note |-> << >>]

(***************************************************************************)
(* Bounds of the model                                                     *)
(***************************************************************************)
\* SSHClient objects created in one run of the model
MaxClients == 2
\* remote commands dispatched in one run of the model
MaxExec == 2
\* tokens after the sub-command in the generated free-form inputs
MaxArgs == 1

(***************************************************************************)
(* State.  client and transport live across requests (st.session_state and *)
(* the paramiko objects it refers to).  Every request runs the page script *)
(* afresh, so what a request shows (report, result) and the Docker page's  *)
(* locals (cmd_to_run, fix_note) are those of the latest request.          *)
(* created, attempts, nchan, inflight, returned and last observe the run.  *)
(* pending is Streamlit's rerun request: a click made while the script is  *)
(* blocked is queued, and the running script is stopped at its next st.*   *)
(* call (RerunException, a BaseException) and run again for the click.     *)
(***************************************************************************)
VARIABLES
    client,      \* st.session_state.linux_client / docker_client: a handle or None
    transport,   \* per SSHClient handle: "unused", "open", "dead", "closed", "failed"
    created,     \* number of paramiko.SSHClient() objects created
    attempts,    \* number of client.connect(...) calls made
    pc,          \* "idle", "collect" while a handler waits for its command, or
                 \* "rerun" when the script was stopped for a queued click
    cur,         \* the waiting handler: its slot, its command and its channel
    inflight,    \* remote commands running: [chan, transport, cmd]
    nchan,       \* number of channels opened by exec_command
    result,      \* the result the latest request showed: [chan, cmd, exit], or NoResult
    returned,    \* <<channel, transport>> of the results shown, in the order shown
    report,      \* the message the latest request showed: [level, text]
    raised,      \* an exception left a request handler
    last,        \* the latest request and what the environment answered
    picker,      \* Docker page widget values: [choice, raw, arg]
    cmd_to_run,  \* Docker page: the resolved command
    fix_note,    \* Docker page: the advisory note
    picked,      \* the command picker has run on the widget values
    pending      \* the slot whose Disconnect click is queued, or "none"

session == <<client, transport, created, attempts>>
exec == <<pc, cur, inflight, nchan, returned, pending>>
page == <<picker, cmd_to_run, fix_note, picked>>
vars == <<client, transport, created, attempts, pc, cur, inflight, nchan, result,
          returned, report, raised, last, picker, cmd_to_run, fix_note, picked, pending>>

Slots == {"linux", "docker"}
None == 0
Handles == 1..MaxClients
NoResult == [chan |-> 0, cmd |-> << >>, exit |-> 0]
NoChan == [slot |-> "none", cmd |-> << >>, chan |-> 0]

Msg(level, text) == [level |-> level, text |-> text]

\* remote exit statuses of a command that ran to its end
ExitCodes == {0, 1}

(***************************************************************************)
(* Inputs                                                                  *)
(***************************************************************************)
\* connection form fields: empty or filled in
Hosts == {"", "10.0.0.5"}
Users == {"", "root"}
Passwords == {"", "secret"}

ls_l == <<"l","s"," ","-","l">>
alpine == <<"a","l","p","i","n","e">>
docker_ps_a == <<"d","o","c","k","e","r"," ","p","s"," ","-","a">>

\* the Linux command box: its default text, or cleared
LinuxCmds == {ls_l, Empty}

\* what the Docker page's widgets hold when Run is pressed
RunRaws == {
    <<"d","c","k","e","r"," ","p","s","s">>,
    <<"d","o","c","k","e","r"," ","r","u","n"," ","\"","u","n","c","l","o","s","e","d">> }

DefaultPicker == [choice |-> Custom, raw |-> docker_ps_a, arg |-> Empty]

RunPicks ==
    {[choice |-> Custom, raw |-> r, arg |-> Empty] : r \in RunRaws}
    \cup {[choice |-> "List Containers (all)", raw |-> Empty, arg |-> Empty]}
    \cup {[choice |-> "Pull Image (name)", raw |-> Empty, arg |-> a] : a \in {Empty, alpine}}

\* free-form inputs for the normaliser: a first word, a second word and up to
\* MaxArgs further words, joined by one separator
Firsts == {
    docker,
    <<"d","c","k","e","r">>,
    <<"d","o","c","k">>,
    <<"p","s">>,
    <<"r","u","n">>,
    <<"x","y","z">>,
    <<"'","d","o","c","k","e","r","'">>,
    <<"d","o","\\","c","k","e","r">> }

Seconds == {
    <<"p","s">>,
    <<"p","s","s">>,
    <<"p","u","l">>,
    <<"r","u","n">>,
    <<"s","t","a","t">>,
    <<"i","m","g","e","s">>,
    <<"x","q">>,
    <<"n","e","o","w","r","t","k">>,
    <<"c","p","s">>,
    <<"-","a">>,
    <<"\"","p","s","\"">>,
    <<"'","'">> }

Args == {
    <<"-","a">>,
    <<"'","x"," ","y","'">>,
    <<"\"","u","n">>,
    <<"a","\\">> }

Seps == {<<" ">>, <<" "," ">>, <<"\t">>}

RECURSIVE ArgSeqs(_)
ArgSeqs(n) ==
    IF n = 0 THEN {<< >>}
    ELSE LET shorter == ArgSeqs(n - 1)
         IN shorter \cup {Append(q, a) : q \in {x \in shorter : Len(x) = n - 1}, a \in Args}

RECURSIVE JoinWith(_, _)
JoinWith(toks, sep) ==
    IF toks = << >> THEN Empty
    ELSE IF Len(toks) = 1 THEN toks[1]
    ELSE toks[1] \o sep \o JoinWith(Tail(toks), sep)

NormRaws ==
    {Empty, <<" ">>, <<"'","'">>}
    \cup Firsts
    \cup {JoinWith(<<f, s>> \o q, sep) :
             f \in Firsts, s \in Seconds, q \in ArgSeqs(MaxArgs), sep \in Seps}
    \cup {<<" ">> \o JoinWith(<<f, s>>, <<" ">>) \o <<" ">> : f \in Firsts, s \in Seconds}

TemplateArgs == {Empty, alpine, <<"a"," ","b">>, <<"{","x","}">>}

\* the command picker on the Run inputs
RunTable == [p \in RunPicks |-> PickCommand(p.choice, p.raw, p.arg)]

NormPicks ==
    {[choice |-> Custom, raw |-> r, arg |-> Empty] : r \in NormRaws}
    \cup {[choice |-> c, raw |-> Empty, arg |-> a] :
             c \in {l \in DOMAIN COMMANDS : COMMANDS[l].needs_arg}, a \in TemplateArgs}
    \cup {[choice |-> c, raw |-> Empty, arg |-> Empty] :
             c \in {l \in DOMAIN COMMANDS : ~COMMANDS[l].needs_arg}}

(***************************************************************************)
(* Initial state: both slots None (session defaults), nothing executed,    *)
(* the Docker page showing its default widget values.                      *)
(***************************************************************************)
InitSession ==
    /\ client = [s \in Slots |-> None]
    /\ transport = [h \in Handles |-> "unused"]
    /\ created = 0
    /\ attempts = 0
    /\ pc = "idle"
    /\ cur = NoChan
    /\ inflight = {}
    /\ nchan = 0
    /\ result = NoResult
    /\ returned = << >>
    /\ pending = "none"
    /\ report = Msg("none", "")
    /\ raised = FALSE
    /\ last = [op |-> "start", slot |-> "none"]

InitPage ==
    /\ picker = DefaultPicker
    /\ cmd_to_run = Empty
    /\ fix_note = << >>
    /\ picked = FALSE

Init == InitSession /\ InitPage

\* a request that is not Run: nothing of an earlier Run is on the page
NoRun ==
    /\ picker' = DefaultPicker
    /\ cmd_to_run' = Empty
    /\ fix_note' = << >>
    /\ picked' = FALSE
    /\ result' = NoResult

(***************************************************************************)
(* Connect / Reconnect                                                     *)
(***************************************************************************)
\* SlotClient reading the Linux slot on both pages
SlotClientLinuxOnly(s) == client["linux"]

\* the slot's client as a page reads it: client = st.session_state.<slot>_client
SlotClient(s) == client[s]

\* ConnectRejected testing the host field alone
ConnectRejectedHostOnly(host, user, pw) == host = ""

\* "if not (host and user and password)"
ConnectRejected(host, user, pw) == ~(host # "" /\ user # "" /\ pw # "")

\* SlotAfterConnectFailure without the assignment of None
SlotKeptOnConnectFailure(s) == client

\* the slot after client.connect(...) raised: session_state.<slot>_client = None
SlotAfterConnectFailure(s) == [client EXCEPT ![s] = None]

\* SlotAfterConnect storing the new client in both slots
SlotAfterConnectBoth(s, h) == [t \in Slots |-> h]

\* the slot after client.connect(...) returned: the new client replaces the old one
SlotAfterConnect(s, h) == [client EXCEPT ![s] = h]

\* the form fields left empty in a connect request
Missing(host, user, pw) ==
    {f \in {"host", "user", "password"} :
        \/ f = "host" /\ host = ""
        \/ f = "user" /\ user = ""
        \/ f = "password" /\ pw = ""}

\* ok: whether the network, the host and the credentials let connect succeed
Connect(s, host, user, pw, ok) ==
    /\ pc = "idle"
    /\ IF ConnectRejected(host, user, pw) THEN
           /\ ok
           /\ report' = Msg("error", "Host / user / password required")
           /\ last' = [op |-> "connect", slot |-> s, held |-> client[s],
                       incomplete |-> Missing(host, user, pw) # {}, outcome |-> "none"]
           /\ UNCHANGED session
       ELSE
           /\ created < MaxClients
           /\ created' = created + 1
           /\ attempts' = attempts + 1
           /\ last' = [op |-> "connect", slot |-> s, held |-> client[s],
                       incomplete |-> Missing(host, user, pw) # {},
                       outcome |-> IF ok THEN "connected" ELSE "failed"]
           /\ IF ok THEN
                  /\ transport' = [transport EXCEPT ![created + 1] = "open"]
                  /\ client' = SlotAfterConnect(s, created + 1)
                  /\ report' = Msg("success", "Connected")
              ELSE
                  /\ transport' = [transport EXCEPT ![created + 1] = "failed"]
                  /\ client' = SlotAfterConnectFailure(s)
                  /\ report' = Msg("error", "Connect failed")
    /\ NoRun
    /\ UNCHANGED <<exec, raised>>

LinuxConnect ==
    \E host \in Hosts, user \in Users, pw \in Passwords, ok \in BOOLEAN :
        Connect("linux", host, user, pw, ok)

DockerConnect ==
    \E host \in Hosts, user \in Users, pw \in Passwords, ok \in BOOLEAN :
        Connect("docker", host, user, pw, ok)

(***************************************************************************)
(* Disconnect                                                              *)
(***************************************************************************)
\* client.close(): closeOk = FALSE is close() raising, the transport left as it was
TransportAfterClose(h, closeOk) ==
    IF closeOk THEN [transport EXCEPT ![h] = "closed"] ELSE transport

\* SlotAfterDisconnect with the close() error not caught: the handler ends
\* before it resets the slot
SlotAfterDisconnectUncaught(s, closeOk) ==
    IF closeOk THEN [client EXCEPT ![s] = None] ELSE client

\* "try: close()  except: pass" and then session_state.<slot>_client = None
SlotAfterDisconnect(s, closeOk) == [client EXCEPT ![s] = None]

\* whether the exception of a failing close() leaves the handler
CloseErrorEscapes(closeOk) == FALSE

Disconnect(s, closeOk) ==
    /\ \/ pc = "idle"
       \/ pc = "rerun" /\ s = pending
    /\ IF SlotClient(s) # None THEN
           /\ transport' = TransportAfterClose(SlotClient(s), closeOk)
           /\ raised' = (raised \/ CloseErrorEscapes(closeOk))
       ELSE
           /\ closeOk
           /\ UNCHANGED <<transport, raised>>
    /\ last' = [op |-> "disconnect", slot |-> s, held |-> client[s], closeOk |-> closeOk,
                queued |-> pc = "rerun"]
    /\ client' = SlotAfterDisconnect(s, closeOk)
    /\ report' = Msg("info", "Disconnected")
    /\ pc' = "idle"
    /\ pending' = "none"
    /\ NoRun
    /\ UNCHANGED <<created, attempts, cur, inflight, nchan, returned>>

LinuxDisconnect == \E closeOk \in BOOLEAN : Disconnect("linux", closeOk)

DockerDisconnect == \E closeOk \in BOOLEAN : Disconnect("docker", closeOk)

(***************************************************************************)
(* The network: an open transport dies (link lost, remote host gone)       *)
(***************************************************************************)
TransportDies ==
    \E h \in Handles :
        /\ transport[h] = "open"
        /\ transport' = [transport EXCEPT ![h] = "dead"]
        /\ last' = [op |-> "died", slot |-> "none"]
        /\ UNCHANGED <<client, created, attempts, exec, result, report, raised, page>>

(***************************************************************************)
(* Execute (Linux Executor) and Run (Docker Menu).  A handler calls        *)
(* client.exec_command(cmd), which opens a channel and starts the command, *)
(* and then blocks in stdout.read(), stderr.read() and recv_exit_status()  *)
(* until the command has ended; the page's script is the only thread of    *)
(* the session, so no other handler starts while pc = "collect".           *)
(***************************************************************************)
\* the try block up to client.exec_command(cmd) on client handle h;
\* dispatchOk = FALSE is the server refusing the channel.  exec_command raises
\* when the transport is not active, and the except clause reports it.
Dispatch(s, h, cmd, dispatchOk) ==
    IF h # None /\ transport[h] = "open" /\ dispatchOk THEN
        /\ nchan < MaxExec
        /\ nchan' = nchan + 1
        /\ inflight' = inflight \cup {[chan |-> nchan + 1, transport |-> h, cmd |-> cmd]}
        /\ pc' = "collect"
        /\ cur' = [slot |-> s, cmd |-> cmd, chan |-> nchan + 1]
        /\ report' = Msg("none", "")
        /\ UNCHANGED <<returned, pending>>
    ELSE
        /\ report' = Msg("error", "SSH error")
        /\ UNCHANGED exec

\* Linux Executor, tab "Command Executor"
LinuxExecute(cmd, dispatchOk) ==
    /\ pc = "idle"
    /\ last' = [op |-> "execute", slot |-> "linux", held |-> client["linux"]]
    /\ IF SlotClient("linux") = None THEN
           /\ dispatchOk
           /\ cmd = ls_l
           /\ report' = Msg("warning", "Please connect to a Linux host first using the sidebar")
           /\ UNCHANGED exec
       ELSE Dispatch("linux", SlotClient("linux"), cmd, dispatchOk)
    /\ NoRun
    /\ UNCHANGED <<session, raised>>

\* NothingToRun letting every resolved command through
NothingToRunNever(cmd) == FALSE

\* the guard of the Run button on the resolved command: "elif not cmd_to_run"
NothingToRun(cmd) == cmd = Empty

\* Docker Menu: the Run button, pressed with widget values p for which the
\* command picker computed pick = (cmd_to_run, fix_note)
DockerRun(p, pick, dispatchOk) ==
    /\ pc = "idle"
    /\ picker' = p
    /\ cmd_to_run' = pick.cmd
    /\ fix_note' = pick.note
    /\ picked' = TRUE
    /\ result' = NoResult
    /\ last' = [op |-> "execute", slot |-> "docker", held |-> client["docker"]]
    /\ IF SlotClient("docker") = None THEN
           /\ dispatchOk
           /\ report' = Msg("error", "Connect first")
           /\ UNCHANGED exec
       ELSE IF NothingToRun(pick.cmd) THEN
           /\ dispatchOk
           /\ report' = Msg("warning", "No command specified")
           /\ UNCHANGED exec
       ELSE Dispatch("docker", SlotClient("docker"), pick.cmd, dispatchOk)
    /\ UNCHANGED <<session, raised>>

\* the Disconnect button of the page is clicked while the handler is blocked
\* in its reads: the click is queued until the script thread next calls st.*
DisconnectClick ==
    /\ pc = "collect"
    /\ pending = "none"
    /\ pending' = cur.slot
    /\ last' = [op |-> "click", slot |-> cur.slot]
    /\ UNCHANGED <<session, pc, cur, inflight, nchan, returned, result, report, raised, page>>

\* whether the first st.* call after the reads (st.text_area / st.code, or
\* st.error in the except clause) stops the script for a queued click
StoppedForRerun == pending # "none"

\* the channel a waiting handler reads its result from: the one its own
\* exec_command call returned
OwnChannel == CHOOSE c \in inflight : c.chan = cur.chan

\* AfterCollect of a handler that returns without waiting for the command
AfterCollectNoWait(c) == inflight

\* the commands still running when the handler has read channel c to its end
\* and received its exit status
AfterCollect(c) == inflight \ {c}

\* the handler's blocking reads return.  how = "exit": the command ended with
\* status e; "decode": the output is not valid UTF-8 and decode() raises;
\* "eof": the transport died, the reads end early and the status is -1;
\* "error": the transport died and a read raises.
Collect(how, e) ==
    LET c == OwnChannel IN
    /\ pc = "collect"
    /\ IF transport[c.transport] = "open" THEN how \in {"exit", "decode"}
       ELSE how \in {"eof", "error"}
    /\ how # "exit" => e = 0
    /\ inflight' = AfterCollect(c)
    /\ pc' = IF StoppedForRerun THEN "rerun" ELSE "idle"
    /\ cur' = NoChan
    /\ last' = [op |-> "collect", slot |-> cur.slot, held |-> client[cur.slot],
                chan |-> cur.chan, cmd |-> cur.cmd, how |-> how]
    /\ IF StoppedForRerun THEN
           \* nothing of this request reaches the page, and the except clause
           \* (except Exception) does not catch the stop
           /\ report' = Msg("none", "")
           /\ result' = NoResult
           /\ UNCHANGED returned
       ELSE IF how \in {"exit", "eof"} THEN
           LET code == IF how = "exit" THEN e ELSE -1 IN
           /\ result' = [chan |-> c.chan, cmd |-> c.cmd, exit |-> code]
           /\ returned' = Append(returned, <<c.chan, c.transport>>)
           /\ report' = IF code = 0
                        THEN Msg("success", IF cur.slot = "linux"
                                            THEN "Command executed successfully"
                                            ELSE "Done")
                        ELSE Msg("error", IF cur.slot = "linux"
                                          THEN "Command exited with code"
                                          ELSE "Exit code")
       ELSE
           /\ report' = Msg("error", "SSH error")
           /\ result' = NoResult
           /\ UNCHANGED returned
    /\ UNCHANGED <<nchan, session, raised, page, pending>>

LinuxExecuteRequest ==
    \E cmd \in LinuxCmds, dispatchOk \in BOOLEAN : LinuxExecute(cmd, dispatchOk)

DockerRunRequest ==
    \E p \in RunPicks, dispatchOk \in BOOLEAN : DockerRun(p, RunTable[p], dispatchOk)

CollectResult ==
    \E how \in {"exit", "decode", "eof", "error"}, e \in ExitCodes : Collect(how, e)

Next ==
    \/ LinuxConnect
    \/ DockerConnect
    \/ LinuxDisconnect
    \/ DockerDisconnect
    \/ TransportDies
    \/ LinuxExecuteRequest
    \/ DockerRunRequest
    \/ DisconnectClick
    \/ CollectResult

Spec == Init /\ [][Next]_vars

(***************************************************************************)
(* The Docker page on every generated input: from the state a successful   *)
(* Connect on the Docker slot leaves, Run is pressed once with the widget  *)
(* values of the initial state.                                            *)
(***************************************************************************)
InitNorm ==
    /\ client = [s \in Slots |-> IF s = "docker" THEN 1 ELSE None]
    /\ transport = [h \in Handles |-> IF h = 1 THEN "open" ELSE "unused"]
    /\ created = 1
    /\ attempts = 1
    /\ pc = "idle"
    /\ cur = NoChan
    /\ inflight = {}
    /\ nchan = 0
    /\ result = NoResult
    /\ returned = << >>
    /\ pending = "none"
    /\ report = Msg("success", "Connected")
    /\ raised = FALSE
    /\ last = [op |-> "connect", slot |-> "docker", held |-> None, incomplete |-> FALSE,
               outcome |-> "connected"]
    /\ picker \in NormPicks
    /\ cmd_to_run = Empty
    /\ fix_note = << >>
    /\ picked = FALSE

NormRun ==
    /\ ~picked
    /\ \E dispatchOk \in BOOLEAN :
          DockerRun(picker, PickCommand(picker.choice, picker.raw, picker.arg), dispatchOk)

NextNorm ==
    \/ NormRun
    \/ CollectResult

SpecNorm == InitNorm /\ [][NextNorm]_vars

(***************************************************************************)
(* Properties                                                              *)
(***************************************************************************)
\* C1: a connect request with host, username or password empty is rejected
\* before any network activity: the request creates no SSH client, makes no
\* connect attempt, leaves both slots and every transport as they were, and
\* reports an error.
C1_RejectedConnectHasNoEffect ==
    [][(last'.op = "connect" /\ last'.incomplete) =>
          /\ created' = created
          /\ attempts' = attempts
          /\ client' = client
          /\ transport' = transport
          /\ report'.level = "error"
          /\ ~raised']_vars

\* a rejected connect request on a slot that holds a session, which it keeps
C1_Witness ==
    /\ last.op = "connect"
    /\ last.incomplete
    /\ last.held # None
    /\ client[last.slot] = last.held
    /\ transport[last.held] = "open"

\* C2: after a connect attempt with all three fields given that failed, the
\* slot is None whatever it held before, the failure is reported as an error
\* and no exception has left the handler.
C2_FailedConnectLeavesDisconnected ==
    (last.op = "connect" /\ ~last.incomplete /\ last.outcome = "failed") =>
        /\ client[last.slot] = None
        /\ report = Msg("error", "Connect failed")
        /\ ~raised

\* a failed connect attempt on a slot that held a session
C2_Witness ==
    /\ last.op = "connect"
    /\ last.outcome = "failed"
    /\ last.held # None
    /\ client[last.slot] = None

C4_NoOpenTransportOutsideSlots ==
    last.op = "connect" =>
        \A h \in Handles : transport[h] = "open" => \E s \in Slots : client[s] = h

\* C5: a remote command is issued only by an execute request on a slot that
\* holds a client with an open transport; an execute request on a slot that
\* holds none issues no command, reports the fact and leaves the slot None.
C5_ExecuteOnlyWhenConnected ==
    [][/\ nchan' # nchan =>
             /\ last'.op = "execute"
             /\ client[last'.slot] # None
             /\ \E c \in inflight' : c.chan = nchan' /\ c.transport = client[last'.slot]
       /\ (last'.op = "execute" /\ client[last'.slot] = None) =>
             /\ nchan' = nchan
             /\ inflight' = inflight
             /\ pc' = "idle"
             /\ report'.level \in {"error", "warning"}
             /\ client'[last'.slot] = None]_vars

\* an execute request on a slot left None by a failed connect, while the other
\* slot is connected
C5_Witness ==
    /\ last.op = "execute"
    /\ client[last.slot] = None
    /\ \E s \in Slots : client[s] # None /\ transport[client[s]] = "open"
    /\ \E h \in Handles : transport[h] = "failed"
    /\ pc = "idle"

\* the command a needs_arg template stands for with argument arg: the template
\* with its placeholder cut out and the argument put in its place
Substituted(tmpl, arg) ==
    LET n == Len(Placeholder)
        i == CHOOSE k \in 1..Len(tmpl) : SubSeq(tmpl, k, k + n - 1) = Placeholder
    IN SubSeq(tmpl, 1, i - 1) \o arg \o SubSeq(tmpl, i + n, Len(tmpl))

\* C6: a needs_arg template resolves to the empty string without an argument
\* and to the template with the argument in the placeholder's place otherwise;
\* a Run request whose resolved command is empty issues nothing on the
\* connected session, and no command in flight or returned is empty.
C6_NoEmptyCommandIssued ==
    picked =>
        /\ (picker.choice # Custom /\ COMMANDS[picker.choice].needs_arg) =>
              cmd_to_run = IF picker.arg = Empty THEN Empty
                           ELSE Substituted(COMMANDS[picker.choice].tmpl, picker.arg)
        /\ cmd_to_run = Empty =>
              /\ nchan = 0
              /\ pc = "idle"
              /\ inflight = {}
              /\ report = Msg("warning", "No command specified")
        /\ \A c \in inflight : c.cmd # Empty
        /\ result # NoResult => result.cmd # Empty

\* Run pressed on a connected session with a needs_arg template and no argument
C6_Witness ==
    /\ picked
    /\ picker.choice # Custom
    /\ COMMANDS[picker.choice].needs_arg
    /\ picker.arg = Empty
    /\ cmd_to_run = Empty
    /\ last.op = "execute"
    /\ client["docker"] # None
    /\ transport[client["docker"]] = "open"
    /\ nchan = 0

\* the free-form text of the widget values cannot be tokenized
Unparseable(p) ==
    /\ p.choice = Custom
    /\ Strip(p.raw) # Empty
    /\ ~shlex_split(Strip(p.raw)).ok

AlreadyCorrect(x) ==
    LET l == shlex_split(x) IN
    /\ l.ok
    /\ l.tokens # << >>
    /\ l.tokens[1] = docker
    /\ Len(l.tokens) >= 2 => l.tokens[2] \in SUBCOMMANDS

\* x has no quote or escape character and only single spaces between its words
Plain(x) ==
    \A i \in 1..Len(x) :
        /\ x[i] \notin Quotes \cup {Escape}
        /\ x[i] \in Whitespace =>
              /\ x[i] = " "
              /\ 1 < i
              /\ i < Len(x)
              /\ x[i + 1] \notin Whitespace

\* the free-form text of the widget values is an already-correct command
CorrectInput(p) == p.choice = Custom /\ Strip(p.raw) # Empty /\ AlreadyCorrect(Strip(p.raw))

\* C8 as stated: an already-correct command is returned as the input string
\* itself, with an empty note.
C8_AsStated ==
    (picked /\ CorrectInput(picker)) =>
        /\ cmd_to_run = Strip(picker.raw)
        /\ fix_note = << >>

\* C8 as amended: an already-correct command is returned with an empty note as
\* its tokens joined by single spaces, which is the input string itself when
\* the input has no quote or escape character and single spaces between words.
C8_CorrectCommandKeepsTokens ==
    (picked /\ CorrectInput(picker)) =>
        /\ fix_note = << >>
        /\ cmd_to_run = Join(shlex_split(Strip(picker.raw)).tokens)
        /\ Plain(Strip(picker.raw)) => cmd_to_run = Strip(picker.raw)

\* a plain already-correct command of three words, returned as it is
C8_Witness ==
    /\ picked
    /\ CorrectInput(picker)
    /\ Plain(Strip(picker.raw))
    /\ Len(shlex_split(Strip(picker.raw)).tokens) >= 3
    /\ cmd_to_run = Strip(picker.raw)
    /\ fix_note = << >>

C10_FailedExecuteFollowsTransport ==
    (last.op \in {"execute", "collect"} /\ last.held # None
        /\ report = Msg("error", "SSH error")) =>
        /\ transport[last.held] = "dead" => client[last.slot] = None
        /\ transport[last.held] = "open" => client[last.slot] = last.held


\* C11: a disconnect request that arrives while an execution is in flight on
\* the slot does not cut into it: when the queued disconnect is about to take
\* effect, the execution has returned its result or an error was shown to its
\* caller, and a result that is shown never comes from a transport that was
\* closed under the execution.
C11_DisconnectAwaitsOrAborts ==
    /\ pc = "rerun" => (result # NoResult \/ report.level = "error")
    /\ (last.op = "collect" /\ result # NoResult) =>
          transport[returned[Len(returned)][2]] # "closed"

\* the tokens of the free-form input of widget values p, when it tokenizes
Tokens(p) == shlex_split(Strip(p.raw)).tokens

\* p is a free-form input that tokenizes to a non-empty list
Tokenized(p) ==
    /\ p.choice = Custom
    /\ Strip(p.raw) # Empty
    /\ shlex_split(Strip(p.raw)).ok
    /\ Tokens(p) # << >>

\* C12: for an input that tokenizes to a non-empty list whose first token is
\* not "docker", exactly one of three cases applies to the first token, in
\* this priority: ratio to "docker" above 0.6, then it is replaced by "docker"
\* and the token count is kept; else a known sub-command, then "docker" is put
\* in front of it and the count grows by one; else nothing changes and there
\* is no note.
C12_FirstTokenCases ==
    (picked /\ Tokenized(picker) /\ Tokens(picker)[1] # docker) =>
        LET t == Tokens(picker) IN
        IF Above06(ratio(t[1], docker)) THEN
            LET fixed == FixSub([t EXCEPT ![1] = docker]) IN
            /\ Len(fixed.tokens) = Len(t)
            /\ fixed.tokens[1] = docker
            /\ cmd_to_run = Join(fixed.tokens)
            /\ fix_note = <<NoteTop(t[1])>> \o fixed.note
        ELSE IF t[1] \in SUBCOMMANDS THEN
            /\ cmd_to_run = Join(<<docker>> \o t)
            /\ fix_note = <<NoteInserted>>
        ELSE
            /\ cmd_to_run = Join(t)
            /\ fix_note = << >>

\* "run -a ..." was run as "docker run -a ..." with the note of the insertion
C12_Witness ==
    /\ picked
    /\ Tokenized(picker)
    /\ Tokens(picker)[1] = <<"r","u","n">>
    /\ Len(Tokens(picker)) >= 3
    /\ fix_note = <<NoteInserted>>
    /\ cmd_to_run = Join(<<docker>> \o Tokens(picker))
    /\ result # NoResult
    /\ result.cmd = cmd_to_run

\* the known sub-commands closest to sub: those of the highest ratio to it
Closest(sub) ==
    CHOOSE out \in
        {{p[2] : p \in {q \in scored : \A o \in scored : ~RatioLess(q[1], o[1])}} :
         scored \in {{<<ratio(sub, x), x>> : x \in SUBCOMMANDS}}} : TRUE

\* the conditions under which the second of tokens u is replaced
SubReplaced(u) ==
    /\ Len(u) >= 2
    /\ u[1] = docker
    /\ u[2] \notin SUBCOMMANDS
    /\ \E x \in Closest(u[2]) : Above06(ratio(u[2], x))

\* C13: after the first-token step the second token is replaced only when
\* there are at least two tokens, the first is "docker", the second is not a
\* known sub-command and the closest known sub-command has a ratio above 0.6
\* to it; it is then replaced by a closest sub-command.  Otherwise it is kept,
\* and the tokens after the second are never changed.
C13_SecondTokenReplacedOnlyWhenClose ==
    (picked /\ Tokenized(picker)) =>
        LET u == FixTop(Tokens(picker)).tokens IN
        IF SubReplaced(u)
        THEN \E x \in Closest(u[2]) : cmd_to_run = Join([u EXCEPT ![2] = x])
        ELSE cmd_to_run = Join(u)

\* the first-token step "how" on tokens t, and the note entry it leaves
TopApplied(t, how) ==
    IF how = "replaced" THEN [t EXCEPT ![1] = docker]
    ELSE IF how = "inserted" THEN <<docker>> \o t
    ELSE t

TopEntry(t, how) ==
    IF how = "replaced" THEN <<NoteTop(t[1])>>
    ELSE IF how = "inserted" THEN <<NoteInserted>>
    ELSE << >>

\* the command and the note are those of the substitutions top (on the first
\* token) and sub (second token replaced by x, or "none") made in this order
\* on tokens t, each of them a change of the tokens
Audit(t, top, sub, x) ==
    LET a == TopApplied(t, top) IN
    /\ top # "none" => t[1] # docker
    /\ sub = "replaced" => (Len(a) >= 2 /\ a[2] # x)
    /\ cmd_to_run = Join(IF sub = "replaced" THEN [a EXCEPT ![2] = x] ELSE a)
    /\ fix_note = TopEntry(t, top)
                  \o (IF sub = "replaced" THEN <<NoteSub(a[2], x)>> ELSE << >>)

\* fix_note is an audit trail of the substitutions made on tokens t
Audited(t) ==
    /\ Len(fix_note) <= 2
    /\ fix_note = << >> <=> cmd_to_run = Join(t)
    /\ \E top \in {"none", "replaced", "inserted"}, sub \in {"none", "replaced"},
          x \in SUBCOMMANDS : Audit(t, top, sub, x)

C15_SlotsIndependent ==
    [][(last'.op \in {"connect", "disconnect", "execute", "click", "collect"}) =>
          \A o \in Slots \ {last'.slot} :
             /\ client'[o] = client[o]
             /\ client[o] # None => transport'[client[o]] = transport[client[o]]]_vars

\* a session was closed on one slot while the other slot holds an open one
C15_Witness ==
    /\ last.op = "disconnect"
    /\ last.held # None
    /\ transport[last.held] = "closed"
    /\ \E o \in Slots \ {last.slot} : client[o] # None /\ transport[client[o]] = "open"
=============================================================================
